---- MODULE Spec2Model ----
(***************************************************************************)
(* flow_sync.py: the Puller (FlowSync.start_pull_schedule / pull_flow /    *)
(* _save_flow) and the Local Watcher (FileWatcher.start /                  *)
(* _check_for_changes / FlowSync.push_flow), two threads that share the    *)
(* filesystem and the bot registry.                                        *)
(*                                                                         *)
(* Time is counted in ticks, TicksPerSec ticks to the second, so that a    *)
(* file's mtime (a float in the code) can fall between two seconds.  A     *)
(* timestamp string 'YYYY-MM-DD HH:MM:SS' is modelled by its seconds field *)
(* alone: a sequence of character codes, the digits 0..9 being the codes   *)
(* 0..9 and any larger code a character that is no digit.                  *)
(***************************************************************************)
EXTENDS Integers, Sequences, FiniteSets, TLC

VARIABLES
    bot_list,             \* FlowSync.bot_list: the registry loaded from config.json
    fs,                   \* the filesystem: path -> [content, mtime]
    now,                  \* the wall clock, in ticks
    remote,               \* bot id -> the document the server last accepted by POST
    pullPc,               \* position of the Puller thread
    idx,                  \* start_pull_schedule: index of the for loop over bot_list
    visited,              \* indices of bot_list the current pull cycle has processed
    pull,                 \* the pull_flow call in progress (or the last one made)
    last_modified_times,  \* FileWatcher.last_modified_times (WatchState)
    watchPc,              \* position of the Watcher thread
    todo,                 \* _check_for_changes: files of the listing not yet visited
    listed,               \* _check_for_changes: the listing of this poll
    cur,                  \* the file whose change was detected and is being pushed
    pollLog,              \* the push attempts of this poll, in order, each with the
                          \* text and the mtime the file had when push_flow was called
    push,                 \* the last push_flow call
    detected,             \* file name -> the mtimes at which a change was detected
    seen,                 \* file name -> the mtime the watcher last read (-1: none)
    attempts,             \* file name -> number of push_flow calls made
    pullWrites,           \* paths a pull has written since the last poll began
    pendingAtPoll,        \* paths a pull had written when the current poll began
    polls,                \* directory listings the Watcher has made: 0, 1, 2 for more
    sent,                 \* the HTTP requests issued so far: who, method, bot id
    config_file,          \* config.json as FlowSync.__init__ finds it
    mainPc,               \* position of main()
    running,              \* FlowSync.running
    watcher_running,      \* FileWatcher.running
    excepted              \* the loops whose except clause has caught an exception

vars == <<bot_list, fs, now, remote, pullPc, idx, visited, pull,
          last_modified_times, watchPc, todo, listed, cur, pollLog, push,
          detected, seen, attempts, pullWrites, pendingAtPoll,
          polls, sent, config_file, mainPc, running, watcher_running, excepted>>

mainVars == <<config_file, mainPc, running, watcher_running, excepted>>
pullVars == <<pullPc, idx, visited, pull>>
watchVars == <<last_modified_times, watchPc, todo, listed, cur, pollLog, push,
               detected, seen, attempts, remote, pendingAtPoll, polls>>

-----------------------------------------------------------------------------
(* Bounds of the model *)

TicksPerSec == 2
StartSec == 9
MaxTicks == 1

-----------------------------------------------------------------------------
(* Paths and directories *)

INPUT_DIR == "flow/input"
OUTPUT_DIR == "flow/output"

\* file_path = os.path.join(directory, file_name); a file name is <<stem, ext>>
Join(dir, name) == <<dir, name[1], name[2]>>

\* f"{bot_name}.json"
JsonName(stem) == <<stem, "json">>

InputNames == {JsonName("A"), JsonName("B")}
OutputNames == {JsonName("A"), JsonName("Z"), <<"A", "txt">>}

Paths == {Join(INPUT_DIR, n) : n \in InputNames} \cup {Join(OUTPUT_DIR, n) : n \in OutputNames}

\* the directory main() hands to the FileWatcher
WatchDirIsInput == INPUT_DIR
WatchDir == OUTPUT_DIR

-----------------------------------------------------------------------------
(* Files *)

Docs == {"D1", "D2"}            \* complete JSON documents
Truncated == ""                 \* the file just after open(path, 'w')
Partial == "D~"                 \* a document cut short by a failed json.dump
Malformed == "{bad"             \* hand-edited text that is no JSON

NoFile == [content |-> "ENOENT", mtime |-> 0]

Exists(p) == fs[p].content # "ENOENT"
IsJson(c) == c \in Docs

-----------------------------------------------------------------------------
(* Timestamps *)

IsDigit(c) == c \in 0..9

\* time.strptime(s, '%S'): one or two digits, at most 61; anything else raises
ValidTs(s) ==
    /\ Len(s) \in {1, 2}
    /\ \A i \in 1..Len(s) : IsDigit(s[i])
    /\ (IF Len(s) = 2 THEN 10 * s[1] + s[2] ELSE s[1]) <= 61

Strptime(s) == IF Len(s) = 2 THEN 10 * s[1] + s[2] ELSE s[1]

\* time.mktime: seconds to a file time
Mktime(sec) == sec * TicksPerSec

\* datetime.fromtimestamp(mtime).strftime('%S'): truncates to the second, zero-padded
Strftime(mtime) == <<(mtime \div TicksPerSec) \div 10, (mtime \div TicksPerSec) % 10>>

RECURSIVE StrGreaterFrom(_, _, _)
StrGreaterFrom(a, b, i) ==
    IF i > Len(a) THEN FALSE
    ELSE IF i > Len(b) THEN TRUE
    ELSE IF a[i] # b[i] THEN a[i] > b[i]
    ELSE StrGreaterFrom(a, b, i + 1)

\* Python's a > b on str: lexicographic by character code
StrGreater(a, b) == StrGreaterFrom(a, b, 1)

Pad(sec) == <<sec \div 10, sec % 10>>

\* gmt_modified values the server may send: zero-padded, not padded, with a
\* character that is no digit, and empty
TsValues ==
    {Pad(StartSec), Pad(StartSec + 1), <<StartSec % 10>>, <<1, 10>>, <<>>}

-----------------------------------------------------------------------------
(* The bot registry (config.json, bot_list) *)

\* an entry is a JSON object: it may lack a key
K1 == << [id |-> "b1", name |-> "A"] >>
K2 == << [id |-> "b1", name |-> "A"], [id |-> "b2", name |-> "B"] >>
K3 == << [name |-> "A"], [id |-> "b2", name |-> "B"] >>

Configs == {K1, K2, K3}

\* config.json: ok is false when the file is missing or is no JSON
EmptyDict == [k \in {} |-> 0]
Unreadable == [ok |-> FALSE, data |-> EmptyDict]
NoListFile == [ok |-> TRUE, data |-> [token |-> "t"]]
FileOf(list) == [ok |-> TRUE, data |-> [bot_list |-> list]]

\* _load_config: the parsed file, or {} on any exception
LoadConfig(f) == IF f.ok THEN f.data ELSE EmptyDict

\* self.config.get('bot_list', [])
BotListOf(config) == IF "bot_list" \in DOMAIN config THEN config.bot_list ELSE <<>>

HasKey(bot, k) == k \in DOMAIN bot

Ids == {"b1", "b2"}

\* _save_flow: next((bot['name'] for bot in bot_list if bot['id'] == bot_id), bot_id);
\* evaluating bot['id'] or bot['name'] on an entry without the key raises KeyError
RECURSIVE SaveNameFrom(_, _, _)
SaveNameFrom(list, i, bot_id) ==
    IF i > Len(list) THEN [err |-> FALSE, val |-> bot_id]
    ELSE IF ~HasKey(list[i], "id") THEN [err |-> TRUE, val |-> ""]
    ELSE IF list[i].id = bot_id
         THEN IF HasKey(list[i], "name")
              THEN [err |-> FALSE, val |-> list[i].name]
              ELSE [err |-> TRUE, val |-> ""]
    ELSE SaveNameFrom(list, i + 1, bot_id)

SaveName(list, bot_id) == SaveNameFrom(list, 1, bot_id)

\* push_flow: the loop that finds the bot_id of bot_name; "" stands for None
RECURSIVE ResolveFrom(_, _, _)
ResolveFrom(list, i, bot_name) ==
    IF i > Len(list) THEN [err |-> FALSE, val |-> ""]
    ELSE IF ~HasKey(list[i], "name") THEN [err |-> TRUE, val |-> ""]
    ELSE IF list[i].name = bot_name
         THEN IF HasKey(list[i], "id")
              THEN [err |-> FALSE, val |-> list[i].id]
              ELSE [err |-> TRUE, val |-> ""]
    ELSE ResolveFrom(list, i + 1, bot_name)

ResolveByNameOrSelf(list, bot_name) ==
    IF ResolveFrom(list, 1, bot_name) = [err |-> FALSE, val |-> ""]
    THEN [err |-> FALSE, val |-> bot_name]
    ELSE ResolveFrom(list, 1, bot_name)
ResolveByName(list, bot_name) == ResolveFrom(list, 1, bot_name)

-----------------------------------------------------------------------------
(* The remote API: GET /bot/{id} *)

RespNames == {"A", "B"}

NoResp == [status |-> "none", name |-> "", gmt_modified |-> <<>>, flow_settings |-> ""]

\* requests.get / raise_for_status raising, an empty body, a body without
\* the keys read at lines 99-102
Failure(st) == [status |-> st, name |-> "", gmt_modified |-> <<>>, flow_settings |-> ""]

Responses ==
    {Failure("down"), Failure("empty"), Failure("malformed")}
    \cup [status : {"ok"}, name : RespNames, gmt_modified : TsValues, flow_settings : Docs]

-----------------------------------------------------------------------------
(* Initial states: FlowSync.__init__ and FileWatcher.__init__, with main() *)
(* at position mpc and both threads at position tpc                        *)

InputPaths == {Join(INPUT_DIR, n) : n \in InputNames}

Snapshot == [p \in InputPaths |-> fs[p]]

NoPull == [bot_id |-> "", resp |-> NoResp, pre |-> [p \in InputPaths |-> NoFile],
           target |-> <<>>, outcome |-> "none", again |-> FALSE]

NoPush == [path |-> <<>>, bot_id |-> "", read |-> "", body |-> "", requests |-> 0,
           outcome |-> "none"]

StartTick == StartSec * TicksPerSec + 1

InitAt(mpc, tpc, files) ==
    /\ config_file \in files
    /\ bot_list = BotListOf(LoadConfig(config_file))
    /\ fs = [p \in Paths |-> NoFile]
    /\ now = StartTick
    /\ remote = [i \in Ids |-> ""]
    /\ pullPc = tpc
    /\ idx = 1
    /\ visited = {}
    /\ pull = NoPull
    /\ last_modified_times = << >>
    /\ watchPc = tpc
    /\ todo = {}
    /\ listed = {}
    /\ cur = <<>>
    /\ pollLog = <<>>
    /\ push = NoPush
    /\ detected = [n \in OutputNames \cup InputNames |-> <<>>]
    /\ seen = [n \in OutputNames \cup InputNames |-> -1]
    /\ attempts = [n \in OutputNames \cup InputNames |-> 0]
    /\ pullWrites = {}
    /\ pendingAtPoll = {}
    /\ mainPc = mpc
    /\ running = TRUE
    /\ watcher_running = TRUE
    /\ excepted = {}
    /\ sent = {}
    /\ polls = 0

\* both threads started, main() in its while True: time.sleep(1)
Init == InitAt("running", "while", {FileOf(list) : list \in Configs})

-----------------------------------------------------------------------------
(* The Puller thread: start_pull_schedule, pull_flow, _save_flow *)

\* while self.running: the for loop starts over bot_list
PullWhile ==
    /\ pullPc = "while"
    /\ running
    /\ pullPc' = "for"
    /\ idx' = 1
    /\ visited' = {}
    /\ UNCHANGED <<bot_list, fs, now, pull, pullWrites>>
    /\ UNCHANGED watchVars
    /\ UNCHANGED mainVars
    /\ UNCHANGED sent

\* for bot in self.bot_list: self.pull_flow(bot['id'])
PullFor ==
    /\ pullPc = "for"
    /\ IF idx > Len(bot_list)
       THEN /\ pullPc' = "sleep"
            /\ UNCHANGED <<idx, visited>>
       ELSE IF ~HasKey(bot_list[idx], "id")
       THEN \* KeyError: caught by the except clause around the whole for loop
            /\ visited' = visited \cup {idx}
            /\ pullPc' = "except"
            /\ idx' = idx
       ELSE /\ visited' = visited \cup {idx}
            /\ pullPc' = "pull"
            /\ idx' = idx
    /\ UNCHANGED <<bot_list, fs, now, pull, pullWrites>>
    /\ UNCHANGED watchVars
    /\ UNCHANGED mainVars
    /\ UNCHANGED sent

\* the path pull_flow checks: os.path.join(INPUT_DIR, f"{bot_name}.json") with
\* bot_name = response_data['name']
CheckedPath(resp) == Join(INPUT_DIR, JsonName(resp.name))

\* lines 106-117: whether pull_flow calls _save_flow
ShouldSave(resp) ==
    \/ ~Exists(CheckedPath(resp))
    \/ StrGreater(resp.gmt_modified, Strftime(fs[CheckedPath(resp)].mtime))

Finished(p) == p.outcome \in {"error", "empty", "noupdate", "saved", "savefail"}

\* pull_flow returns: the for loop takes the next bot
Return(outcome) ==
    /\ pull' = [pull EXCEPT !.outcome = outcome]
    /\ pullPc' = "for"
    /\ idx' = idx + 1

\* lines 90-91: requests.get(f"{base_url}/{bot_id}")
PullRequestPosts(bot_id) == [method |-> "POST", bot_id |-> bot_id]
PullRequest(bot_id) == [method |-> "GET", bot_id |-> bot_id]

\* lines 144-145: requests.post(f"{base_url}/{bot_id}/setting", json=output_data)
PushRequest(bot_id) == [method |-> "POST", bot_id |-> bot_id]

\* pull_flow, lines 89-117: the GET, whose response is one of R, the response's
\* fields, the decision
PullFlowOn(R) ==
    /\ pullPc = "pull"
    /\ \E resp \in R :
        LET call == [bot_id |-> bot_list[idx].id, resp |-> resp, pre |-> Snapshot,
                     target |-> <<>>, outcome |-> "inflight",
                     again |-> /\ pull.outcome \in {"saved", "noupdate"}
                               /\ resp.status = "ok"
                               /\ pull.bot_id = bot_list[idx].id
                               /\ pull.resp = resp]
        IN  IF resp.status # "ok"
            THEN /\ pull' = [call EXCEPT !.outcome =
                                IF resp.status = "empty" THEN "empty" ELSE "error"]
                 /\ pullPc' = "for"
                 /\ idx' = idx + 1
            ELSE IF ShouldSave(resp)
            THEN /\ pull' = call
                 /\ pullPc' = "open"
                 /\ idx' = idx
            ELSE /\ pull' = [call EXCEPT !.outcome = "noupdate"]
                 /\ pullPc' = "for"
                 /\ idx' = idx + 1
    /\ sent' = sent \cup {[by |-> "puller", req |-> PullRequest(bot_list[idx].id)]}
    /\ UNCHANGED <<bot_list, fs, now, visited, pullWrites>>
    /\ UNCHANGED watchVars
    /\ UNCHANGED mainVars

PullFlow == PullFlowOn(Responses)

\* a server that is down or returns one document
FewResponses ==
    {Failure("down"),
     [status |-> "ok", name |-> "A", gmt_modified |-> Pad(StartSec + 1),
      flow_settings |-> "D1"]}

PullFlowFew == PullFlowOn(FewResponses)

\* the document the server returns for a bot: the one last accepted by POST,
\* or the one it held from the start
Held(bot_id) == IF remote[bot_id] = "" THEN "D2" ELSE remote[bot_id]

\* a server that answers every GET with the document it holds, under either
\* name, with a zero-padded gmt_modified
EchoResponses(bot_id) ==
    {r \in Responses : /\ r.status = "ok"
                       /\ r.flow_settings = Held(bot_id)
                       /\ r.gmt_modified \in {Pad(StartSec), Pad(StartSec + 1)}}

PullFlowEcho == PullFlowOn(EchoResponses(bot_list[idx].id))

\* the path _save_flow writes: the registry's name for bot_id
SavePath(list, p) ==
    [err |-> SaveName(list, p.bot_id).err,
     val |-> Join(INPUT_DIR, JsonName(SaveName(list, p.bot_id).val))]

\* _save_flow, lines 71-73: the name lookup and open(file_path, 'w'), which
\* truncates the file; either may raise
SaveOpen ==
    /\ pullPc = "open"
    /\ \/ /\ ~SavePath(bot_list, pull).err
          /\ fs' = [fs EXCEPT ![SavePath(bot_list, pull).val] =
                        [content |-> Truncated, mtime |-> now]]
          /\ pull' = [pull EXCEPT !.target = SavePath(bot_list, pull).val]
          /\ pullPc' = "dump"
          /\ idx' = idx
       \/ /\ Return("savefail")
          /\ UNCHANGED fs
    /\ UNCHANGED <<bot_list, now, visited, pullWrites>>
    /\ UNCHANGED watchVars
    /\ UNCHANGED mainVars
    /\ UNCHANGED sent

\* _save_flow, line 74: json.dump writes the document, or fails part-way
SaveDump ==
    /\ pullPc = "dump"
    /\ \/ /\ fs' = [fs EXCEPT ![pull.target] =
                        [content |-> pull.resp.flow_settings, mtime |-> now]]
          /\ pullPc' = "utime"
          /\ UNCHANGED <<pull, idx>>
       \/ /\ fs' = [fs EXCEPT ![pull.target] = [content |-> Partial, mtime |-> now]]
          /\ Return("savefail")
    /\ UNCHANGED <<bot_list, now, visited, pullWrites>>
    /\ UNCHANGED watchVars
    /\ UNCHANGED mainVars
    /\ UNCHANGED sent

\* _save_flow, lines 76-80: the mtime the file gets
Utime(ts) == Mktime(Strptime(ts))

\* _save_flow, lines 76-85
SaveUtime ==
    /\ pullPc = "utime"
    /\ IF pull.resp.gmt_modified = <<>>
       THEN \* if last_modified: is false
            /\ Return("saved")
            /\ pullWrites' = pullWrites \cup {pull.target}
            /\ UNCHANGED fs
       ELSE IF ~ValidTs(pull.resp.gmt_modified)
       THEN \* time.strptime raises ValueError
            /\ Return("savefail")
            /\ UNCHANGED <<fs, pullWrites>>
       ELSE /\ fs' = [fs EXCEPT ![pull.target].mtime =
                          Utime(pull.resp.gmt_modified)]
            /\ pullWrites' = pullWrites \cup {pull.target}
            /\ Return("saved")
    /\ UNCHANGED <<bot_list, now, visited>>
    /\ UNCHANGED watchVars
    /\ UNCHANGED mainVars
    /\ UNCHANGED sent

\* time.sleep(self.pull_interval)
PullSleep ==
    /\ pullPc = "sleep"
    /\ pullPc' = "while"
    /\ UNCHANGED <<bot_list, fs, now, idx, visited, pull, pullWrites>>
    /\ UNCHANGED watchVars
    /\ UNCHANGED mainVars
    /\ UNCHANGED sent

\* where a loop goes when its except clause has logged the exception and
\* slept 5 seconds: back to the test of while self.running
PullExceptEnds == "done"
PullExceptTo == "while"

\* except Exception: time.sleep(5)
PullExcept ==
    /\ pullPc = "except"
    /\ pullPc' = PullExceptTo
    /\ excepted' = excepted \cup {"puller"}
    /\ UNCHANGED <<bot_list, fs, now, idx, visited, pull, pullWrites>>
    /\ UNCHANGED watchVars
    /\ UNCHANGED <<config_file, mainPc, running, watcher_running>>
    /\ UNCHANGED sent

\* while self.running is false: start_pull_schedule returns
PullExit ==
    /\ pullPc = "while"
    /\ ~running
    /\ pullPc' = "done"
    /\ UNCHANGED <<bot_list, fs, now, idx, visited, pull, pullWrites>>
    /\ UNCHANGED watchVars
    /\ UNCHANGED mainVars
    /\ UNCHANGED sent

\* the wall clock advances
Tick ==
    /\ now < StartTick + MaxTicks
    /\ now' = now + 1
    /\ UNCHANGED <<bot_list, fs, pullWrites>>
    /\ UNCHANGED pullVars
    /\ UNCHANGED watchVars
    /\ UNCHANGED mainVars
    /\ UNCHANGED sent

-----------------------------------------------------------------------------
(* The Watcher thread: FileWatcher.start, _check_for_changes, push_flow *)

NamesIn(dir) == {n \in OutputNames \cup InputNames : Join(dir, n) \in Paths}

\* _get_file_list: [f for f in os.listdir(directory) if f.endswith('.json')]
GetFileList(dir) == {n \in NamesIn(dir) : Exists(Join(dir, n)) /\ n[2] = "json"}

\* start: while self.running: _check_for_changes() lists the directory
WatchList ==
    /\ watchPc = "while"
    /\ watcher_running
    /\ todo' = GetFileList(WatchDir)
    /\ listed' = GetFileList(WatchDir)
    /\ pollLog' = <<>>
    /\ pendingAtPoll' = pullWrites
    /\ pullWrites' = {}
    /\ polls' = IF polls < 2 THEN polls + 1 ELSE 2
    /\ watchPc' = "for"
    /\ UNCHANGED <<bot_list, fs, now, remote, last_modified_times, cur, push,
                   detected, seen, attempts>>
    /\ UNCHANGED pullVars
    /\ UNCHANGED mainVars
    /\ UNCHANGED sent

\* line 194: the file is new to WatchState, or its mtime has advanced
ChangedIfNew(p, mtime) == p \notin DOMAIN last_modified_times
ChangedIfDifferent(p, mtime) ==
    p \notin DOMAIN last_modified_times \/ mtime # last_modified_times[p]
ChangedIfKnown(p, mtime) ==
    p \in DOMAIN last_modified_times /\ mtime > last_modified_times[p]
ChangedOrSame(p, mtime) ==
    p \notin DOMAIN last_modified_times \/ mtime >= last_modified_times[p]
Changed(p, mtime) ==
    p \notin DOMAIN last_modified_times \/ mtime > last_modified_times[p]

\* lines 187-196: the next file of the listing, its mtime (os.path.getmtime
\* raises when the file is gone; the except clause of line 202 takes the next
\* file), the comparison, and the new mtime recorded before the push
WatchFor ==
    /\ watchPc = "for"
    /\ IF todo = {}
       THEN /\ watchPc' = "sleep"
            /\ UNCHANGED <<todo, cur, last_modified_times, detected, seen>>
       ELSE \E n \in todo :
            LET p == Join(WatchDir, n)
                mtime == fs[p].mtime
            IN  IF ~Exists(p)
                THEN /\ todo' = todo \ {n}
                     /\ watchPc' = "for"
                     /\ UNCHANGED <<cur, last_modified_times, detected, seen>>
                ELSE
                /\ seen' = [seen EXCEPT ![n] = mtime]
                /\ IF Changed(p, mtime)
                   THEN /\ last_modified_times' =
                              [q \in DOMAIN last_modified_times \cup {p} |->
                                  IF q = p THEN mtime ELSE last_modified_times[q]]
                        /\ detected' = [detected EXCEPT ![n] = Append(@, mtime)]
                        /\ cur' = n
                        /\ watchPc' = "push"
                        /\ UNCHANGED todo
                   ELSE /\ todo' = todo \ {n}
                        /\ watchPc' = "for"
                        /\ UNCHANGED <<cur, last_modified_times, detected>>
    /\ UNCHANGED <<bot_list, fs, now, remote, listed, pollLog, push, attempts,
                   pullWrites, pendingAtPoll, polls>>
    /\ UNCHANGED pullVars
    /\ UNCHANGED mainVars
    /\ UNCHANGED sent

\* a push_flow that posts only when the remote is not newer than the file
PushFlowUnlessRemoteNewer(list, n, p, up) ==
    LET r == ResolveByName(list, n[1])
    IN  IF \/ r.err \/ r.val = "" \/ ~IsJson(fs[p].content)
           \/ (pull.resp.status = "ok"
               /\ StrGreater(pull.resp.gmt_modified, Strftime(fs[p].mtime)))
        THEN [path |-> p, bot_id |-> "", read |-> "", body |-> "", requests |-> 0,
              outcome |-> "error"]
        ELSE [path |-> p, bot_id |-> r.val, read |-> fs[p].content,
              body |-> fs[p].content, requests |-> 1,
              outcome |-> IF up THEN "ok" ELSE "remote_error"]

\* push_flow: what the call does with the registry, the file and the server:
\* the bot id found, the text read from the file, the body of the POST, the
\* number of requests; up says whether the POST succeeds
PushFlow(list, n, p, up) ==
    LET r == ResolveByName(list, n[1])
    IN  IF r.err
        THEN [path |-> p, bot_id |-> "", read |-> "", body |-> "", requests |-> 0,
              outcome |-> "error"]
        ELSE IF r.val = ""
        THEN [path |-> p, bot_id |-> "", read |-> "", body |-> "", requests |-> 0,
              outcome |-> "unknown"]
        ELSE IF ~Exists(p)
        THEN [path |-> p, bot_id |-> r.val, read |-> "", body |-> "", requests |-> 0,
              outcome |-> "error"]
        ELSE IF ~IsJson(fs[p].content)
        THEN [path |-> p, bot_id |-> r.val, read |-> fs[p].content, body |-> "",
              requests |-> 0, outcome |-> "invalid"]
        ELSE [path |-> p, bot_id |-> r.val, read |-> fs[p].content,
              body |-> fs[p].content, requests |-> 1,
              outcome |-> IF up THEN "ok" ELSE "remote_error"]

\* where _check_for_changes goes after push_flow: push_flow catches every
\* exception and returns False, so the for loop takes the next file
AfterPushRaises(outcome) == IF outcome = "ok" THEN "for" ELSE "while"
AfterPush(outcome) == "for"

\* lines 199-201: push_flow(bot_name, file_path)
WatchPush ==
    /\ watchPc = "push"
    /\ \E up \in BOOLEAN :
        LET call == PushFlow(bot_list, cur, Join(WatchDir, cur), up)
        IN  /\ push' = call
            /\ pollLog' = Append(pollLog, [name |-> cur, outcome |-> call.outcome,
                                           text |-> fs[Join(WatchDir, cur)].content,
                                           mtime |-> fs[Join(WatchDir, cur)].mtime])
            /\ remote' = IF call.outcome = "ok"
                         THEN [remote EXCEPT ![call.bot_id] = call.body]
                         ELSE remote
            /\ watchPc' = AfterPush(call.outcome)
            /\ sent' = IF call.requests = 1
                       THEN sent \cup {[by |-> "watcher", req |-> PushRequest(call.bot_id)]}
                       ELSE sent
    /\ attempts' = [attempts EXCEPT ![cur] = @ + 1]
    /\ todo' = todo \ {cur}
    /\ UNCHANGED <<bot_list, fs, now, last_modified_times, listed, cur, detected, seen,
                   pullWrites, pendingAtPoll, polls>>
    /\ UNCHANGED pullVars
    /\ UNCHANGED mainVars

\* time.sleep(self.interval)
WatchSleep ==
    /\ watchPc = "sleep"
    /\ watchPc' = "while"
    /\ UNCHANGED <<bot_list, fs, now, remote, last_modified_times, todo, listed, cur,
                   pollLog, push, detected, seen, attempts, pullWrites, pendingAtPoll, polls>>
    /\ UNCHANGED pullVars
    /\ UNCHANGED mainVars
    /\ UNCHANGED sent

\* os.listdir raises (the watched directory is missing or unreadable): the
\* exception leaves _check_for_changes and is caught in start
WatchListFails ==
    /\ watchPc = "while"
    /\ watcher_running
    /\ watchPc' = "except"
    /\ UNCHANGED <<bot_list, fs, now, remote, last_modified_times, todo, listed, cur,
                   pollLog, push, detected, seen, attempts, pullWrites, pendingAtPoll, polls>>
    /\ UNCHANGED pullVars
    /\ UNCHANGED mainVars
    /\ UNCHANGED sent

WatchExceptTo == "while"

\* except Exception: time.sleep(5)
WatchExcept ==
    /\ watchPc = "except"
    /\ watchPc' = WatchExceptTo
    /\ excepted' = excepted \cup {"watcher"}
    /\ UNCHANGED <<bot_list, fs, now, remote, last_modified_times, todo, listed, cur,
                   pollLog, push, detected, seen, attempts, pullWrites, pendingAtPoll, polls>>
    /\ UNCHANGED pullVars
    /\ UNCHANGED <<config_file, mainPc, running, watcher_running>>
    /\ UNCHANGED sent

\* while self.running is false: FileWatcher.start returns
WatchExit ==
    /\ watchPc = "while"
    /\ ~watcher_running
    /\ watchPc' = "done"
    /\ UNCHANGED <<bot_list, fs, now, remote, last_modified_times, todo, listed, cur,
                   pollLog, push, detected, seen, attempts, pullWrites, pendingAtPoll, polls>>
    /\ UNCHANGED pullVars
    /\ UNCHANGED mainVars
    /\ UNCHANGED sent

\* what the operator types: a document, or text that is no JSON
EditContents(n) == IF n[2] = "json" THEN {"D1", Malformed} ELSE {"D1"}

\* the operator saves by hand one of the files N of the output directory
OperatorEditOn(N) ==
    /\ \E n \in N : \E c \in EditContents(n) :
        fs' = [fs EXCEPT ![Join(OUTPUT_DIR, n)] = [content |-> c, mtime |-> now]]
    /\ UNCHANGED <<bot_list, now, pullWrites>>
    /\ UNCHANGED pullVars
    /\ UNCHANGED watchVars
    /\ UNCHANGED mainVars
    /\ UNCHANGED sent

OperatorEdit == OperatorEditOn(OutputNames)

\* an mtime older than any the clock of the model gives
OldTick == StartTick - 1

\* the operator puts an older copy in the place of one of the files N,
\* keeping the copy's mtime (mv, cp -p, a restore from a backup)
OperatorRestoreOn(N) ==
    /\ \E n \in N :
        fs' = [fs EXCEPT ![Join(OUTPUT_DIR, n)] = [content |-> "D2", mtime |-> OldTick]]
    /\ UNCHANGED <<bot_list, now, pullWrites>>
    /\ UNCHANGED pullVars
    /\ UNCHANGED watchVars
    /\ UNCHANGED mainVars
    /\ UNCHANGED sent

\* the operator deletes one of the files N
OperatorDeleteOn(N) ==
    /\ \E n \in N :
        /\ Exists(Join(OUTPUT_DIR, n))
        /\ fs' = [fs EXCEPT ![Join(OUTPUT_DIR, n)] = NoFile]
    /\ UNCHANGED <<bot_list, now, pullWrites>>
    /\ UNCHANGED pullVars
    /\ UNCHANGED watchVars
    /\ UNCHANGED mainVars
    /\ UNCHANGED sent

OperatorRestore == OperatorRestoreOn({JsonName("A")})

OperatorDelete == OperatorDeleteOn({JsonName("A")})

OperatorEditFew == OperatorEditOn({JsonName("A")})

-----------------------------------------------------------------------------
(* main() *)

\* if not flow_sync.bot_list: main() returns without starting a thread
RefusesNothing(list) == FALSE
Refuses(list) == list = <<>>

\* lines 228-240: the registry is checked, the FileWatcher created and its
\* thread started; a return passes through the finally clause, which calls
\* flow_sync.stop()
MainCheck ==
    /\ mainPc = "init"
    /\ IF Refuses(bot_list)
       THEN /\ mainPc' = "refused"
            /\ running' = FALSE
            /\ UNCHANGED watchPc
       ELSE /\ mainPc' = "watching"
            /\ watchPc' = "while"
            /\ UNCHANGED running
    /\ UNCHANGED <<bot_list, fs, now, remote, last_modified_times, todo, listed, cur,
                   pollLog, push, detected, seen, attempts, pullWrites, pendingAtPoll, polls>>
    /\ UNCHANGED pullVars
    /\ UNCHANGED <<config_file, watcher_running, excepted>>
    /\ UNCHANGED sent

\* lines 243-245: the pull thread is started
MainStartPull ==
    /\ mainPc = "watching"
    /\ mainPc' = "running"
    /\ pullPc' = "while"
    /\ UNCHANGED <<bot_list, fs, now, idx, visited, pull, pullWrites>>
    /\ UNCHANGED watchVars
    /\ UNCHANGED <<config_file, running, watcher_running, excepted>>
    /\ UNCHANGED sent

\* FlowSync.stop
FlowSyncStop == running' = FALSE

\* FileWatcher.stop: no line of the program calls it
FileWatcherStop == watcher_running' = FALSE

\* lines 251-258: KeyboardInterrupt (or another exception) in main(), then
\* finally: flow_sync.stop()
MainStop ==
    /\ mainPc \in {"watching", "running"}
    /\ mainPc' = "stopped"
    /\ FlowSyncStop
    /\ UNCHANGED <<bot_list, fs, now, pullWrites>>
    /\ UNCHANGED pullVars
    /\ UNCHANGED watchVars
    /\ UNCHANGED <<config_file, watcher_running, excepted>>
    /\ UNCHANGED sent

WatcherNext == WatchList \/ WatchFor \/ WatchPush \/ WatchSleep

PullerNext ==
    \/ PullWhile \/ PullFor \/ PullFlow \/ SaveOpen \/ SaveDump \/ SaveUtime
    \/ PullSleep \/ PullExcept

\* the Puller alone
SpecPull == Init /\ [][PullerNext \/ Tick]_vars

\* the whole program from the entry of main(): config.json unreadable, without
\* a bot_list, with an empty one, with one bot, with an entry that has no id
InitBoth ==
    InitAt("init", "new", {Unreadable, NoListFile, FileOf(<<>>), FileOf(K1), FileOf(K3)})

Next ==
    \/ MainCheck \/ MainStartPull \/ MainStop
    \/ PullWhile \/ PullFor \/ PullFlowFew \/ SaveOpen \/ SaveDump \/ SaveUtime
    \/ PullSleep \/ PullExcept \/ PullExit
    \/ WatchList \/ WatchFor \/ WatchPush \/ WatchSleep \/ WatchListFails \/ WatchExcept
    \/ OperatorEditFew \/ Tick

Spec == InitBoth /\ [][Next]_vars

\* both threads against a server that returns what was pushed, two bots
InitRound == Init /\ bot_list = K2

SpecRound ==
    InitRound /\ [][\/ PullWhile \/ PullFor \/ PullFlowEcho \/ SaveOpen \/ SaveDump
                     \/ SaveUtime \/ PullSleep
                     \/ WatchList \/ WatchFor \/ WatchPush \/ WatchSleep
                     \/ OperatorEditFew]_vars

\* the Watcher alone, with the operator: the registry K1 gives it nothing K2 does not
InitWatch == Init /\ bot_list \in {K2, K3}

SpecWatch == InitWatch /\ [][WatcherNext \/ OperatorEdit \/ Tick]_vars

\* the Watcher with an operator who edits output/A.json, a registered name;
\* the Watcher's thread is never starved: time.sleep returns and every call
\* of an iteration returns
InitLive == Init /\ bot_list = K2

SpecLive ==
    /\ InitLive
    /\ [][WatcherNext \/ OperatorEditFew \/ Tick]_vars
    /\ WF_vars(WatcherNext)

\* the Watcher alone, with an operator who also deletes the file and puts
\* older copies in its place
SpecReplace ==
    InitWatch /\ [][\/ WatcherNext \/ OperatorEditFew \/ OperatorRestore \/ OperatorDelete
                     \/ Tick]_vars

-----------------------------------------------------------------------------
(* Properties of the Puller *)

PulledOk == Finished(pull) /\ pull.resp.status = "ok"

\* the file as a completed pull of the response leaves it
Pulled(resp) ==
    [content |-> resp.flow_settings, mtime |-> Mktime(Strptime(resp.gmt_modified))]

\* the local mtime pull_flow compared with, formatted at second resolution
LocalTs(p) == Strftime(pull.pre[p].mtime)

InputUnchanged == \A q \in InputPaths : fs[q] = pull.pre[q]

\* C1: when the file a pull checks already exists, a pull that ends without an
\* error has overwritten that file (content = the fetched flow_settings, mtime =
\* the remote gmt_modified) if the remote timestamp is greater than the local
\* mtime formatted at second resolution, and has otherwise left the local files
\* as they were, with no write.
C1_OverwriteIffRemoteNewer ==
    (/\ PulledOk
     /\ pull.outcome \in {"saved", "noupdate"}
     /\ pull.pre[CheckedPath(pull.resp)] # NoFile)
    => IF StrGreater(pull.resp.gmt_modified, LocalTs(CheckedPath(pull.resp)))
       THEN fs[CheckedPath(pull.resp)] = Pulled(pull.resp)
       ELSE pull.target = <<>> /\ InputUnchanged

\* C2: when no file exists at the path a pull checks, a pull that ends without
\* an error, of a response whose gmt_modified parses, has created that file
\* with content = the fetched flow_settings and mtime = the parsed gmt_modified.
C2_FirstSyncCreatesFile ==
    (/\ PulledOk
     /\ pull.outcome \in {"saved", "noupdate"}
     /\ ValidTs(pull.resp.gmt_modified)
     /\ pull.pre[CheckedPath(pull.resp)] = NoFile)
    => fs[CheckedPath(pull.resp)] = Pulled(pull.resp)

\* C3: a pull that follows, for the same bot and with the same response (its
\* gmt_modified zero-padded), a pull that ended without an error opens no file
\* for writing.
C3_PullIdempotent ==
    (/\ pull.again
     /\ Len(pull.resp.gmt_modified) = 2
     /\ ValidTs(pull.resp.gmt_modified))
    => pull.target = <<>>

\* C6: every local flow file that exists holds a complete JSON document, in
\* every state, those in the middle of a pull's write included.
C6_LocalFileAlwaysJson ==
    \A p \in InputPaths : Exists(p) => IsJson(fs[p].content)

\* C7: when no pull write is in progress, the file the last pull wrote, holding
\* the flow_settings of that pull's response, has the mtime that response's
\* gmt_modified (not empty) gives.
C7_MtimeIsRemoteTs ==
    (/\ pullPc \notin {"dump", "utime"}
     /\ pull.target # <<>>
     /\ pull.resp.gmt_modified # <<>>
     /\ fs[pull.target].content = pull.resp.flow_settings)
    => /\ ValidTs(pull.resp.gmt_modified)
       /\ fs[pull.target].mtime = Mktime(Strptime(pull.resp.gmt_modified))

\* C8: after a pull whose local write failed, every local file has the content
\* and the mtime it had before the pull.
C8_FailedWriteLeavesFile ==
    (Finished(pull) /\ pull.outcome = "savefail") => InputUnchanged

\* C9: when a pull cycle ends, every bot of bot_list has been processed in it.
C9_CycleReachesEveryBot ==
    pullPc \in {"sleep", "except"} => visited = 1..Len(bot_list)

\* C18: the file a pull opens for writing is the file whose existence and
\* mtime decided the overwrite, and a pull leaves every other local file as it
\* was.
C18_CheckedPathIsWrittenPath ==
    pull.resp.status = "ok" =>
        /\ pull.target # <<>> => pull.target = CheckedPath(pull.resp)
        /\ \A q \in InputPaths \ {CheckedPath(pull.resp)} : fs[q] = pull.pre[q]

-----------------------------------------------------------------------------
(* Properties of the Watcher *)

StrictlyIncreasing(q) == \A i \in 1..Len(q) : \A j \in 1..Len(q) : i < j => q[i] < q[j]

Failures == {"error", "unknown", "invalid", "remote_error"}

\* C4: for every watched file, the mtimes at which the watcher detected a
\* change are strictly increasing (no mtime triggers two pushes), every mtime
\* the watcher read that was beyond the recorded one is recorded and was
\* detected, and the push attempts made are one per detection, the one in
\* progress apart.
C4_OnePushPerAdvance ==
    \A n \in OutputNames :
        /\ StrictlyIncreasing(detected[n])
        /\ attempts[n] =
              Len(detected[n]) - (IF watchPc = "push" /\ cur = n THEN 1 ELSE 0)
        /\ seen[n] # -1 =>
              /\ Join(WatchDir, n) \in DOMAIN last_modified_times
              /\ seen[n] <= last_modified_times[Join(WatchDir, n)]
              /\ detected[n][Len(detected[n])] = last_modified_times[Join(WatchDir, n)]

\* a push of A.json failed, and a later poll, complete, of the file with its
\* mtime unchanged has made no push
C4_Witness ==
    /\ watchPc = "sleep"
    /\ JsonName("A") \in listed
    /\ pollLog = <<>>
    /\ attempts[JsonName("A")] = 1
    /\ push.path = Join(WatchDir, JsonName("A"))
    /\ push.outcome \in Failures

PushedInPoll(p) == \E i \in 1..Len(pollLog) : Join(WatchDir, pollLog[i].name) = p

\* C5, as claimed: when a poll ends, the watcher has pushed in it every file a
\* pull had written when the poll began.
C5_PullWriteRepushed ==
    watchPc = "sleep" => \A p \in pendingAtPoll : PushedInPoll(p)

\* C5, amended: a file a pull has written is never recorded in WatchState and
\* never pushed: the watcher polls the output directory, a pull writes the
\* input directory.
C5_PullWriteNeverPushed ==
    \A p \in pendingAtPoll \cup pullWrites :
        /\ p \notin DOMAIN last_modified_times
        /\ ~PushedInPoll(p)
        /\ push.path # p

\* a poll that began after a pull's write has ended
C5_Witness ==
    /\ watchPc = "sleep"
    /\ pendingAtPoll # {}
    /\ pull.outcome = "saved"

RegistryNames == {bot_list[i].name : i \in {j \in 1..Len(bot_list) : HasKey(bot_list[j], "name")}}

\* C10: between polls the watcher has visited every file of the last listing,
\* whatever the outcome of its pushes, and recorded the mtime of each; it can
\* always take a further step; and a push for a name that is not in the
\* registry has sent no request.
C10_PushFailureIsolated ==
    /\ watchPc \in {"while", "sleep"} => todo = {}
    /\ \A n \in listed \ todo :
          /\ Join(WatchDir, n) \in DOMAIN last_modified_times
          /\ seen[n] <= last_modified_times[Join(WatchDir, n)]
    /\ ENABLED WatcherNext
    /\ (push.path # <<>> /\ push.path[2] \notin RegistryNames) => push.requests = 0

\* a poll in which the first push failed and the push of a later file succeeded
C10_Witness ==
    /\ watchPc = "sleep"
    /\ Len(pollLog) = 2
    /\ pollLog[1].outcome \in Failures
    /\ pollLog[2].outcome = "ok"

\* C16: WatchState is empty until the first poll; when the first poll ends,
\* every JSON file its listing found has been pushed exactly once and no other
\* file has been pushed; and in every state the pushes of a file are at most
\* one per strictly greater mtime detected.
C16_FirstPollPushesAll ==
    /\ polls = 0 => last_modified_times = << >>
    /\ (polls = 1 /\ watchPc = "sleep") =>
          \A n \in OutputNames : attempts[n] = IF n \in listed THEN 1 ELSE 0
    /\ \A n \in OutputNames :
          /\ StrictlyIncreasing(detected[n])
          /\ attempts[n] <= Len(detected[n])

\* the first poll found both JSON files and has ended
C16_Witness ==
    /\ polls = 1
    /\ watchPc = "sleep"
    /\ listed = {JsonName("A"), JsonName("Z")}
    /\ attempts[JsonName("A")] = 1
    /\ attempts[JsonName("Z")] = 1

\* C17: a push_flow call for a file whose name is the name of a registry bot
\* and whose text is JSON issues one POST, whatever timestamp the server has
\* for the bot; a call never issues more than one; a POST goes to the id of
\* the registry bot of that name with the text read from the file as its
\* body; and after a successful push the server holds that body.
C17_PushUnconditional ==
    push.path # <<>> =>
        /\ push.requests \in {0, 1}
        /\ (/\ pollLog # <<>>
             /\ \E i \in 1..Len(bot_list) :
                   /\ \A j \in 1..i : DOMAIN bot_list[j] = {"id", "name"}
                   /\ bot_list[i].name = push.path[2]
             /\ IsJson(pollLog[Len(pollLog)].text))
           => /\ push.requests = 1
              /\ push.body = pollLog[Len(pollLog)].text
        /\ push.requests = 1 =>
              /\ \E i \in 1..Len(bot_list) :
                    /\ DOMAIN bot_list[i] = {"id", "name"}
                    /\ bot_list[i].name = push.path[2]
                    /\ bot_list[i].id = push.bot_id
              /\ IsJson(push.read)
              /\ push.body = push.read
        /\ push.outcome = "ok" => remote[push.bot_id] = push.body

\* a pull saved a document whose remote timestamp is later than the mtime of
\* output/A.json; a poll that began after that pushed A.json and the server
\* now holds the file's content
C17_Witness ==
    /\ pull.outcome = "saved"
    /\ pullWrites = {}
    /\ pendingAtPoll # {}
    /\ Len(pollLog) = 1
    /\ pollLog[1].outcome = "ok"
    /\ Mktime(Strptime(pull.resp.gmt_modified)) > fs[push.path].mtime
    /\ remote[push.bot_id] = fs[push.path].content

\* C19: no step removes an entry of WatchState or lowers the mtime recorded
\* for a path, and the watcher goes on to push a file only if the file was not
\* in WatchState or its mtime is greater than the recorded one: a file deleted
\* and recreated, or replaced, with an mtime at or below the recorded one is
\* not pushed.
C19_WatchStateMonotone ==
    [][/\ \A p \in DOMAIN last_modified_times :
             /\ p \in DOMAIN last_modified_times'
             /\ last_modified_times'[p] >= last_modified_times[p]
       /\ (watchPc = "for" /\ watchPc' = "push") =>
             \/ Join(WatchDir, cur') \notin DOMAIN last_modified_times
             \/ fs[Join(WatchDir, cur')].mtime > last_modified_times[Join(WatchDir, cur')]
       /\ \A n \in OutputNames : attempts'[n] # attempts[n] => watchPc = "push"]_vars

\* output/A.json was pushed, then replaced by a copy with an older mtime; a
\* later poll read that mtime and ended without a push
C19_Witness ==
    /\ watchPc = "sleep"
    /\ JsonName("A") \in listed
    /\ pollLog = <<>>
    /\ attempts[JsonName("A")] = 1
    /\ seen[JsonName("A")] = fs[Join(WatchDir, JsonName("A"))].mtime
    /\ fs[Join(WatchDir, JsonName("A"))].mtime
          < last_modified_times[Join(WatchDir, JsonName("A"))]

\* the file is there with an mtime WatchState does not have yet
Pending(n) ==
    /\ Exists(Join(WatchDir, n))
    /\ \/ Join(WatchDir, n) \notin DOMAIN last_modified_times
       \/ fs[Join(WatchDir, n)].mtime > last_modified_times[Join(WatchDir, n)]

\* the last push_flow call for the file has returned and read the text the
\* file holds, and the file's mtime is not beyond the recorded one
PushedCurrent(n) ==
    /\ ~Pending(n)
    /\ ~(watchPc = "push" /\ cur = n)
    /\ push.path = Join(WatchDir, n)
    /\ push.read = fs[Join(WatchDir, n)].content

\* no push_flow call of this poll was handed a file older than the mtime
\* recorded for it
NoStaleRead ==
    \A i \in 1..Len(pollLog) :
        pollLog[i].mtime >= last_modified_times[Join(WatchDir, pollLog[i].name)]

\* C20: while the Watcher keeps polling, whenever output/A.json has an mtime
\* beyond the recorded one, a state follows in which a push_flow call for it
\* has been made and the last such call read the text the file then holds;
\* and a push_flow call never finds the file older than the mtime that was
\* recorded for it, so a file modified between the Watcher's reading of its
\* mtime and that call is read as modified.
C20_ChangeEventuallyPushed ==
    /\ []NoStaleRead
    /\ Pending(JsonName("A")) ~> PushedCurrent(JsonName("A"))

\* the file was modified, its mtime advancing, between the Watcher's reading
\* of the mtime and push_flow's reading of the text: the call read the new text
C20_Witness ==
    /\ Len(pollLog) = 1
    /\ pollLog[1].name = JsonName("A")
    /\ pollLog[1].mtime > last_modified_times[Join(WatchDir, JsonName("A"))]
    /\ push.read = pollLog[1].text
    /\ push.read = fs[Join(WatchDir, JsonName("A"))].content
    /\ Pending(JsonName("A"))

-----------------------------------------------------------------------------
(* Properties of main() and of the two loops *)

\* C11: once the shutdown path of main() has called FlowSync.stop, the stop
\* flag of the Puller loop and the stop flag of the Watcher loop are both set,
\* and neither loop, at its polling boundary, can start a further pull cycle or
\* a further directory poll.
C11_StopEndsBothLoops ==
    mainPc = "stopped" =>
        /\ ~running
        /\ ~watcher_running
        /\ ~ENABLED PullWhile
        /\ ~ENABLED WatchList

\* C12: every request the Puller has issued is a GET, no POST; and every
\* document the server holds was sent to it by a POST of the Watcher's
\* push_flow.
C12_PullNeverPosts ==
    /\ \A s \in sent : s.by = "puller" => s.req.method = "GET"
    /\ \A i \in Ids : remote[i] # "" =>
          [by |-> "watcher", req |-> PushRequest(i)] \in sent

\* a pull has fetched and saved a document, and the Watcher has pushed one
C12_Witness ==
    /\ [by |-> "puller", req |-> PullRequest("b1")] \in sent
    /\ pull.outcome = "saved"
    /\ remote["b1"] = "D1"

\* C13: when the bot registry is empty at startup (config.json missing or not
\* parseable, without a bot_list, or with an empty one), neither thread is ever
\* started, no request is ever issued, no local flow file is ever written and
\* no push is ever attempted.
C13_EmptyRegistryStartsNothing ==
    bot_list = <<>> =>
        /\ pullPc = "new"
        /\ watchPc = "new"
        /\ sent = {}
        /\ pull = NoPull
        /\ push = NoPush
        /\ \A p \in InputPaths : ~Exists(p)
        /\ \A n \in OutputNames : attempts[n] = 0

\* config.json could not be read, main() has returned, and a JSON file waits
\* in the output directory
C13_Witness ==
    /\ ~config_file.ok
    /\ bot_list = <<>>
    /\ mainPc = "refused"
    /\ Exists(Join(OUTPUT_DIR, JsonName("A")))

\* C15: a loop has returned only if its stop flag is set; a loop whose except
\* clause has caught an exception goes back to the test of its flag, and while
\* the flag is not set it starts a further iteration from there.
C15_ExceptionKeepsLoop ==
    /\ pullPc = "done" => ~running
    /\ watchPc = "done" => ~watcher_running
    /\ pullPc = "except" => ENABLED PullExcept
    /\ watchPc = "except" => ENABLED WatchExcept
    /\ (pullPc = "while" /\ running) => ENABLED PullWhile
    /\ (watchPc = "while" /\ watcher_running) => ENABLED WatchList

\* each loop has caught an exception and is in a further iteration
C15_Witness ==
    /\ excepted = {"puller", "watcher"}
    /\ running
    /\ pullPc = "for"
    /\ watchPc = "for"

-----------------------------------------------------------------------------
(* Properties of a push followed by a pull *)

\* the local flow file of a bot: the registry's name for it, in the input directory
LocalFile(bot_id) == SavePath(bot_list, [bot_id |-> bot_id]).val

====
